---- MODULE Spec2Model ----
(***************************************************************************)
(* ataf: the archive writer (src/archive/write.rs), the archive reader     *)
(* (src/archive/read.rs), the header codecs (src/spec.rs) and the codecs   *)
(* (src/compression.rs), as one state machine.  An archive is written      *)
(* entry by entry into `sink`; a reader is then opened over the bytes of   *)
(* the sink and walks the entries.                                         *)
(***************************************************************************)
EXTENDS Integers, Sequences, FiniteSets, TLC

\* ---------------------------------------------------------------- bounds
MaxThreads == 2      \* worker counts 1..MaxThreads
MaxChunkSize == 2    \* compression_chunk_size 1..MaxChunkSize
MaxSize == 3         \* header.size 0..MaxSize
MaxEntries == 2      \* write_entry calls per archive
MaxBuf == 2          \* caller buffer lengths 1..MaxBuf
MaxFaults == 1       \* I/O faults of the sink per archive
MaxValue == 260      \* the values 0..MaxValue are serialized, besides the powers of two
MaxRun == 12         \* continuation bytes in a row in a byte string that is deserialized

\* ------------------------------------------------------------- helpers
Min(a, b) == IF a < b THEN a ELSE b

Zeros(n) == [i \in 1..n |-> 0]

Take(s, n) == SubSeq(s, 1, Min(n, Len(s)))

Drop(s, n) == SubSeq(s, Min(n, Len(s)) + 1, Len(s))

RECURSIVE Concat(_)
Concat(ss) == IF ss = <<>> THEN <<>> ELSE Head(ss) \o Concat(Tail(ss))

\* ------------------------------------------------------ src/spec.rs
\* u16::to_be_bytes, where the code has to_le_bytes
U16BE(v) == <<(v \div 256) % 256, v % 256>>

U16LE(v) == <<v % 256, (v \div 256) % 256>>

U32LE(v) == <<v % 256, (v \div 256) % 256, (v \div 65536) % 256, (v \div 16777216) % 256>>

FromLE(b) == IF Len(b) = 2 THEN b[1] + 256 * b[2]
             ELSE b[1] + 256 * b[2] + 65536 * b[3] + 16777216 * b[4]

RECURSIVE VarintSerialize(_)
VarintSerialize(value) ==
    IF value \div 128 = 0 THEN <<value % 128>>
    ELSE <<(value % 128) + 128>> \o VarintSerialize(value \div 128)

\* read_exact on the stream s at offset pos (bytes consumed so far)
ReadExact(s, pos, n) ==
    IF pos + n <= Len(s)
    THEN [st |-> "ok", bytes |-> SubSeq(s, pos + 1, pos + n), pos |-> pos + n]
    ELSE [st |-> "eof", bytes |-> <<>>, pos |-> Len(s)]

RECURSIVE VarintLoop(_, _, _, _, _)
VarintLoop(s, pos, value, shift, width) ==
    IF pos >= Len(s) THEN [st |-> "eof", value |-> 0, pos |-> Len(s)]
    ELSE LET byte == s[pos + 1]
             v == value + (byte % 128) * (2 ^ shift)
         IN IF byte < 128 THEN [st |-> "ok", value |-> v, pos |-> pos + 1]
            ELSE IF shift + 7 >= width THEN [st |-> "invalid", value |-> 0, pos |-> pos + 1]
            ELSE VarintLoop(s, pos + 1, v, shift + 7, width)

VarintDeserialize(s, pos, width) == VarintLoop(s, pos, 0, 0, width)

\* A u32 or u64 as its bits, lowest first: a sequence of 32 or 64 bits, so
\* that the values up to 2^64 - 1 and the bits a shift drops are in the model.
WordZero(width) == [i \in 1..width |-> 0]

\* the word of a value below 2^31
Bits(v, width) == [i \in 1..width |-> IF i <= 31 THEN (v \div 2 ^ (i - 1)) % 2 ELSE 0]

\* (value & 0x7F) as u8
Low7(value) ==
    value[1] + 2 * value[2] + 4 * value[3] + 8 * value[4] + 16 * value[5]
        + 32 * value[6] + 64 * value[7]

\* value >> 7
ShiftRight7(value) ==
    [i \in 1..Len(value) |-> IF i + 7 <= Len(value) THEN value[i + 7] ELSE 0]

\* VariableSizedU32::serialize and VariableSizedU64::serialize
RECURSIVE VariableSizedSerialize(_)
VariableSizedSerialize(value) ==
    LET byte == Low7(value)
        rest == ShiftRight7(value)
    IN IF rest = WordZero(Len(value)) THEN <<byte>>
       ELSE <<byte + 128>> \o VariableSizedSerialize(rest)

\* a decoder that puts every group of seven bits at the bottom of the value
OrUnshifted(value, low, shift) ==
    [i \in 1..Len(value) |->
        IF i <= 7 /\ (low \div 2 ^ (i - 1)) % 2 = 1 THEN 1 ELSE value[i]]

\* value |= (low as u32) << shift, low = byte & 0x7F: the bits shifted past
\* the width of the value are dropped
OrShifted(value, low, shift) ==
    [i \in 1..Len(value) |->
        IF i > shift /\ i <= shift + 7 /\ (low \div 2 ^ (i - shift - 1)) % 2 = 1
        THEN 1 ELSE value[i]]

\* a decoder that never finds the value too large
TooLargeNever(shift, width) == FALSE

\* if shift >= 32 (VariableSizedU32), if shift >= 64 (VariableSizedU64)
TooLarge(shift, width) == shift >= width

\* the loop of VariableSizedU32::deserialize (value of 32 bits) and of
\* VariableSizedU64::deserialize (64 bits)
RECURSIVE VariableSizedLoop(_, _, _, _)
VariableSizedLoop(s, pos, value, shift) ==
    IF pos >= Len(s) THEN [st |-> "eof", value |-> WordZero(Len(value)), pos |-> Len(s)]
    ELSE LET byte == s[pos + 1]
             v == OrShifted(value, byte % 128, shift)
         IN IF byte < 128 THEN [st |-> "ok", value |-> v, pos |-> pos + 1]
            ELSE IF TooLarge(shift + 7, Len(value))
                 THEN [st |-> "invalid", value |-> WordZero(Len(value)), pos |-> pos + 1]
            ELSE VariableSizedLoop(s, pos + 1, v, shift + 7)

VariableSizedDeserialize(s, pos, width) == VariableSizedLoop(s, pos, WordZero(width), 0)

\* the length of the well-formed UTF-8 sequence (RFC 3629) of two to four
\* bytes that starts at index i of b, 0 if none starts there
Utf8SequenceLength(b, i) ==
    LET cont(k) == k <= Len(b) /\ b[k] >= 128 /\ b[k] <= 191
        rng(k, lo, hi) == k <= Len(b) /\ b[k] >= lo /\ b[k] <= hi
    IN IF b[i] >= 194 /\ b[i] <= 223 THEN (IF cont(i + 1) THEN 2 ELSE 0)
       ELSE IF b[i] = 224 THEN (IF rng(i + 1, 160, 191) /\ cont(i + 2) THEN 3 ELSE 0)
       ELSE IF b[i] = 237 THEN (IF rng(i + 1, 128, 159) /\ cont(i + 2) THEN 3 ELSE 0)
       ELSE IF b[i] >= 225 /\ b[i] <= 239 THEN (IF cont(i + 1) /\ cont(i + 2) THEN 3 ELSE 0)
       ELSE IF b[i] = 240
            THEN (IF rng(i + 1, 144, 191) /\ cont(i + 2) /\ cont(i + 3) THEN 4 ELSE 0)
       ELSE IF b[i] = 244
            THEN (IF rng(i + 1, 128, 143) /\ cont(i + 2) /\ cont(i + 3) THEN 4 ELSE 0)
       ELSE IF b[i] >= 241 /\ b[i] <= 243
            THEN (IF cont(i + 1) /\ cont(i + 2) /\ cont(i + 3) THEN 4 ELSE 0)
       ELSE 0

\* String::from_utf8 succeeds: every byte is ASCII, or starts a well-formed
\* sequence, or is a continuation byte of the sequence that starts one to
\* three bytes before it
IsUtf8(b) ==
    \A i \in 1..Len(b) :
        \/ b[i] < 128
        \/ Utf8SequenceLength(b, i) > 0
        \/ /\ b[i] >= 128 /\ b[i] <= 191
           /\ \E d \in 1..3 : i - d >= 1 /\ Utf8SequenceLength(b, i - d) > d

\* the compressor names, as the bytes of the UTF-8 strings
NameNone == <<110, 111, 110, 101>>

NameFlate2 == <<102, 108, 97, 116, 101, 50>>

NameBrotli == <<98, 114, 111, 116, 108, 105>>

NameLz4 == <<108, 122, 52>>

ArchiveHeaderSerialize(h) ==
    U32LE(h.version) \o U16LE(Len(h.compression)) \o h.compression
        \o U32LE(h.compression_chunk_size)

NoArchiveHeader == [version |-> 0, compression |-> <<>>, compression_chunk_size |-> 0]

ArchiveHeaderDeserialize(s, pos) ==
    LET fail(p) == [st |-> "eof", header |-> NoArchiveHeader, pos |-> p]
        version == ReadExact(s, pos, 4)
    IN IF version.st # "ok" THEN fail(version.pos) ELSE
       LET length == ReadExact(s, version.pos, 2)
       IN IF length.st # "ok" THEN fail(length.pos) ELSE
       LET compression == ReadExact(s, length.pos, FromLE(length.bytes))
       IN IF compression.st # "ok" THEN fail(compression.pos) ELSE
       IF ~IsUtf8(compression.bytes)
       THEN [st |-> "invalid", header |-> NoArchiveHeader, pos |-> compression.pos] ELSE
       LET chunk_size == ReadExact(s, compression.pos, 4)
       IN IF chunk_size.st # "ok" THEN fail(chunk_size.pos) ELSE
          [st |-> "ok",
           header |-> [version |-> FromLE(version.bytes),
                       compression |-> compression.bytes,
                       compression_chunk_size |-> FromLE(chunk_size.bytes)],
           pos |-> chunk_size.pos]

ArchiveEntryHeaderType == <<"File", "Directory", "SymlinkFile", "SymlinkDirectory">>

TypeSerialize(t) == <<(CHOOSE i \in 1..4 : ArchiveEntryHeaderType[i] = t) - 1>>

ArchiveEntryHeaderSerialize(e) ==
    TypeSerialize(e.type) \o VarintSerialize(Len(e.path)) \o e.path \o U32LE(e.mode)
        \o VarintSerialize(e.uid) \o VarintSerialize(e.gid)
        \o VarintSerialize(e.mtime) \o VarintSerialize(e.size)

NoEntryHeader ==
    [type |-> "File", path |-> <<>>, mode |-> 0, uid |-> 0, gid |-> 0, mtime |-> 0, size |-> 0]

ArchiveEntryHeaderDeserialize(s, pos) ==
    LET fail(kind, p) == [st |-> kind, header |-> NoEntryHeader, pos |-> p]
        type == ReadExact(s, pos, 1)
    IN IF type.st # "ok" THEN fail("eof", type.pos) ELSE
       IF type.bytes[1] > 3 THEN fail("other", type.pos) ELSE
       LET path_length == VarintDeserialize(s, type.pos, 64)
       IN IF path_length.st # "ok" THEN fail(path_length.st, path_length.pos) ELSE
       LET path_bytes == ReadExact(s, path_length.pos, path_length.value)
       IN IF path_bytes.st # "ok" THEN fail("eof", path_bytes.pos) ELSE
       IF ~IsUtf8(path_bytes.bytes) THEN fail("invalid", path_bytes.pos) ELSE
       LET mode_bytes == ReadExact(s, path_bytes.pos, 4)
       IN IF mode_bytes.st # "ok" THEN fail("eof", mode_bytes.pos) ELSE
       LET uid == VarintDeserialize(s, mode_bytes.pos, 32)
       IN IF uid.st # "ok" THEN fail(uid.st, uid.pos) ELSE
       LET gid == VarintDeserialize(s, uid.pos, 32)
       IN IF gid.st # "ok" THEN fail(gid.st, gid.pos) ELSE
       LET mtime == VarintDeserialize(s, gid.pos, 64)
       IN IF mtime.st # "ok" THEN fail(mtime.st, mtime.pos) ELSE
       LET size == VarintDeserialize(s, mtime.pos, 64)
       IN IF size.st # "ok" THEN fail(size.st, size.pos) ELSE
          [st |-> "ok",
           header |-> [type |-> ArchiveEntryHeaderType[type.bytes[1] + 1],
                       path |-> path_bytes.bytes,
                       mode |-> FromLE(mode_bytes.bytes),
                       uid |-> uid.value, gid |-> gid.value,
                       mtime |-> mtime.value, size |-> size.value],
           pos |-> size.pos]

\* -------------------------------------------- src/archive/write.rs, read.rs
u32_to_u24_bytes(value) == <<(value \div 65536) % 256, (value \div 256) % 256, value % 256>>

u24_bytes_to_u32(bytes) == bytes[1] * 65536 + bytes[2] * 256 + bytes[3]

\* a chunk count that rounds up also when no remainder is left
WriteChunkCountPlusOne(size, chunk_size) == size \div chunk_size + 1

\* write_entry's chunk_count: size / chunk_size, plus one when a remainder is left
WriteChunkCount(size, chunk_size) ==
    size \div chunk_size + (IF size % chunk_size > 0 THEN 1 ELSE 0)

\* a reader that leaves the chunk of the remainder out
EntryChunksFloor(size, chunk_size) == size \div chunk_size

\* next_entry's chunks: size / chunk_size, plus one when a remainder is left
EntryChunks(size, chunk_size) ==
    size \div chunk_size + (IF size % chunk_size > 0 THEN 1 ELSE 0)

\* ------------------------------------------------- src/compression.rs
\* first byte of a compressed chunk (the zlib stream header byte 0x78)
ZlibMarker == 120

\* flate2::write::ZlibEncoder over one input buffer: an injective encoding
\* that never yields an empty blob
ZlibEncode(data) == <<ZlibMarker>> \o [i \in 1..Len(data) |-> 255 - data[i]]

\* flate2::read::ZlibDecoder::read_to_end over one blob: the bytes it yields,
\* or an error on a blob that is no zlib stream
ZlibDecode(blob) ==
    IF Len(blob) >= 1 /\ blob[1] = ZlibMarker
    THEN [st |-> "ok", data |-> [i \in 1..(Len(blob) - 1) |-> 255 - blob[i + 1]]]
    ELSE [st |-> "invalid", data |-> <<>>]

\* a NoCompressor that copies one byte less than the chunk size
NoCompressorChunkShort(inp, chunk_size) == Take(inp, chunk_size - 1)

\* NoCompressor::compress: what one read of at most chunk_size bytes copies
\* from a source that fills the request until its end
NoCompressorChunk(inp, chunk_size) == Take(inp, chunk_size)

\* the read_vectored loop of the parallel compressors: fills the n_threads
\* buffers of c bytes from the source inp, starting at slice `first`
RECURSIVE ReadVectoredLoop(_, _, _, _, _)
ReadVectoredLoop(inp, bufs, first, n_threads, c) ==
    IF first >= n_threads
    THEN [input |-> inp, buffers |-> bufs, chunks_with_data |-> n_threads]
    ELSE LET n == Min(Len(inp), (n_threads - first) * c)
         IN IF n = 0
            THEN [input |-> inp, buffers |-> bufs, chunks_with_data |-> first]
            ELSE LET slices_read == n \div c
                     bytes_read == n % c
                     seg(i) == SubSeq(inp, (i - first - 1) * c + 1, Min((i - first) * c, n))
                     filled == [i \in 1..n_threads |->
                                  IF i > first /\ (i - first - 1) * c < n
                                  THEN seg(i) \o Drop(bufs[i], Len(seg(i)))
                                  ELSE bufs[i]]
                     current == first + slices_read
                 IN IF bytes_read > 0 /\ current < n_threads
                    THEN [input |-> Drop(inp, n),
                          buffers |-> [filled EXCEPT ![current + 1] = Take(@, bytes_read)],
                          chunks_with_data |-> current + 1]
                    ELSE ReadVectoredLoop(Drop(inp, n), filled, current, n_threads, c)

\* --------------------------------------------------------------- state
VARIABLES
    compressor,              \* "none" or "flate2": the Compressor of the writer
    threads,                 \* Flate2Compressor.threads
    compression_chunk_size,  \* ArchiveWriter.header.compression_chunk_size
    sink,                    \* the bytes ArchiveWriter.writer has received
    wpc,                     \* where the writer is: idle, loop, round, failed, hung, panic
    chunk_count,             \* ChunkWriter.chunk_count (u64; a negative value v stands for v + 2^64)
    remaining_chunks,        \* write_entry's local chunk_count, passed to compress as remaining_chunks
    input,                   \* the bytes the source of the entry has not delivered yet
    input_buffers,           \* Flate2Compressor.input_buffers in the current round
    workers,                 \* the workers spawned in the current round: "running" or "done"
    error,                   \* the round's shared error slot holds Some(err)
    result,                  \* what the driver's check of the error slot saw: pending, ok, err
    faults,                  \* I/O faults the sink may still raise
    log,                     \* history: the write_entry calls so far
    frames,                  \* history: the framed chunks written so far
    base                     \* history: logical chunks of the entry read from the source before this round

VARIABLES
    rpc,                       \* where the reader is: none, new, entries, entry, recurse, batch, end, failed, err, overflow, panic
    rd,                        \* Archive.reader: the bytes of the stream
    rpos,                      \* the bytes of the stream consumed so far
    archive_header,            \* Archive.header: <<>> for None, <<h>> for Some(h)
    decompressor,              \* "none" or "flate2": the Decompressor of the entries reader
    decompress_inputs,         \* Decompressor::decompress_inputs()
    entry_header,              \* ArchiveEntry.header
    entry_chunk_size,          \* ArchiveEntry.compression_chunk_size
    compression_chunk_buffer,  \* ArchiveEntry.compression_chunk_buffer: decompressed, not yet returned
    read_bytes,                \* ArchiveEntry.read_bytes
    chunks,                    \* ArchiveEntry.chunks
    read_chunks,               \* ArchiveEntry.read_chunks
    chunk_buffers,             \* Flate2Decompressor.chunk_buffers, kept from call to call
    inputs,                    \* the compressed chunks of the batch being decompressed
    dworkers,                  \* the workers of the batch: "running" or "done"
    derror,                    \* the batch's shared error slot holds Some(err)
    dresult,                   \* what the driver's check of the error slot saw: pending, ok, err
    buf_len,                   \* buf.len() of the read call in progress
    dropping,                  \* the read call in progress is made by ArchiveEntry::drop
    out,                       \* history: the bytes the entry's read calls have returned to the caller
    last,                      \* history: what the last read call of the caller returned: a count, "err", "none"
    eidx,                      \* history: the entries next_entry has returned
    abandoned,                 \* history: read_bytes of the last entry when it was dropped
    cut                        \* history: the stream was cut short

rvars == <<rpc, rd, rpos, archive_header, decompressor, decompress_inputs, entry_header,
           entry_chunk_size, compression_chunk_buffer, read_bytes, chunks, read_chunks,
           chunk_buffers, inputs, dworkers, derror, dresult, buf_len, dropping, out, last,
           eidx, abandoned, cut>>

wvars == <<compressor, threads, compression_chunk_size, sink, wpc, chunk_count,
           remaining_chunks, input, input_buffers, workers, error, result, faults,
           log, frames, base>>

VARIABLES
    call                       \* a codec function applied on its own: its name, its argument, its result

\* no codec function is applied on its own
NoCall == [fn |-> "none"]

vars == <<wvars, rvars, call>>

\* the entry headers the caller passes, for a payload size
EntryHeaders(size) ==
    {[type |-> "File", path |-> <<97>>, mode |-> 420, uid |-> 1000, gid |-> 0,
      mtime |-> 300, size |-> size]}
    \cup (IF size = 0
          THEN {[type |-> "Directory", path |-> <<100>>, mode |-> 493, uid |-> 0, gid |-> 0,
                 mtime |-> 1, size |-> 0]}
          ELSE {})

\* the byte string of length n a source holds: non-zero bytes, all distinct
Payload(n) == [i \in 1..n |-> i]

\* the sources the caller passes: size bytes, or a byte less, or a byte more
Sources(size) ==
    {Payload(n) : n \in {m \in (size - 1)..(size + 1) : m >= 0}}

\* ArchiveWriter::new: the archive header is written at construction
Constructed ==
    /\ compressor \in {"none", "flate2"}
    /\ threads \in (IF compressor = "none" THEN {1} ELSE 1..MaxThreads)
    /\ compression_chunk_size \in 1..MaxChunkSize
    /\ sink = ArchiveHeaderSerialize(
                [version |-> 1,
                 compression |-> IF compressor = "none" THEN NameNone ELSE NameFlate2,
                 compression_chunk_size |-> compression_chunk_size])
    /\ wpc = "idle"
    /\ chunk_count = 0
    /\ remaining_chunks = 0
    /\ input = <<>>
    /\ input_buffers = <<>>
    /\ workers = <<>>
    /\ error = FALSE
    /\ result = "pending"
    /\ log = <<>>
    /\ frames = <<>>
    /\ base = 0
    /\ rpc = "none"
    /\ rd = <<>>
    /\ rpos = 0
    /\ archive_header = <<>>
    /\ decompressor = "none"
    /\ decompress_inputs = 1
    /\ entry_header = NoEntryHeader
    /\ entry_chunk_size = 0
    /\ compression_chunk_buffer = <<>>
    /\ read_bytes = 0
    /\ chunks = 0
    /\ read_chunks = 0
    /\ chunk_buffers = <<>>
    /\ inputs = <<>>
    /\ dworkers = <<>>
    /\ derror = FALSE
    /\ dresult = "pending"
    /\ buf_len = 0
    /\ dropping = FALSE
    /\ out = <<>>
    /\ last = [st |-> "none", n |-> 0]
    /\ eidx = 0
    /\ abandoned = 0
    /\ cut = FALSE
    /\ call = NoCall

\* the sink takes every byte
Init == Constructed /\ faults = 0

\* the sink may fail
InitF == Constructed /\ faults = MaxFaults

\* a scope that returns to its caller without waiting for its workers
ScopeDetached(ws) == TRUE

\* rayon's in_place_scope returns when every job spawned in it has completed
ScopeJoined(ws) == \A i \in DOMAIN ws : ws[i] = "done"

\* ChunkWriter::write_chunk, without fault: the 3-byte length, the bytes
WriteChunkBytes(chunk) == u32_to_u24_bytes(Len(chunk)) \o chunk

\* the history record of a framed chunk: entry, logical index, logical length
Frame(idx, len) == [entry |-> Len(log), idx |-> idx, len |-> len, off |-> Len(sink)]

\* write_entry returns: the entry of the log is closed
Returned(status) == [log EXCEPT ![Len(log)].status = status, ![Len(log)].end = Len(sink')]

\* ArchiveWriter::write_entry up to its loop: header, chunk count
WriteEntry(entry, source) ==
    /\ wpc \in {"idle", "failed"}
    /\ Len(log) < MaxEntries
    /\ sink' = sink \o ArchiveEntryHeaderSerialize(entry)
    /\ remaining_chunks' = WriteChunkCount(entry.size, compression_chunk_size)
    /\ chunk_count' = remaining_chunks'
    /\ input' = source
    /\ base' = 0
    /\ wpc' = IF chunk_count' > 0 THEN "loop" ELSE "idle"
    /\ log' = Append(log, [header |-> entry, source |-> source, start |-> Len(sink),
                           hend |-> Len(sink'), end |-> Len(sink'),
                           status |-> IF chunk_count' > 0 THEN "writing" ELSE "ok"])
    /\ rpc = "none"
    /\ UNCHANGED <<rvars, call>>
    /\ UNCHANGED <<compressor, threads, compression_chunk_size, input_buffers, workers,
                   error, result, faults, frames>>

\* write_entry when serializing the entry header fails
WriteEntryFault(entry) ==
    /\ wpc \in {"idle", "failed"}
    /\ Len(log) < MaxEntries
    /\ faults > 0
    /\ faults' = faults - 1
    /\ wpc' = "failed"
    /\ log' = Append(log, [header |-> entry, source |-> <<>>, start |-> Len(sink),
                           hend |-> Len(sink), end |-> Len(sink), status |-> "err"])
    /\ rpc = "none"
    /\ UNCHANGED <<rvars, call>>
    /\ UNCHANGED <<compressor, threads, compression_chunk_size, sink, chunk_count,
                   remaining_chunks, input, input_buffers, workers, error, result,
                   frames, base>>

\* one turn of write_entry's loop with NoCompressor::compress
NoCompress ==
    /\ wpc = "loop"
    /\ compressor = "none"
    /\ LET chunk == NoCompressorChunk(input, compression_chunk_size)
           bytes_copied == Len(chunk)
       IN /\ input' = Drop(input, bytes_copied)
          /\ base' = base + 1
          /\ \/ /\ sink' = sink \o WriteChunkBytes(chunk)
                /\ chunk_count' = chunk_count - 1
                /\ frames' = Append(frames, Frame(base, Len(chunk)))
                /\ wpc' = IF chunk_count' # 0 THEN "loop" ELSE "idle"
                /\ log' = IF chunk_count' # 0 THEN log ELSE Returned("ok")
                /\ UNCHANGED faults
             \/ /\ faults > 0
                /\ faults' = faults - 1
                /\ \E written \in {<<>>, u32_to_u24_bytes(Len(chunk))} : sink' = sink \o written
                /\ wpc' = "failed"
                /\ log' = Returned("err")
                /\ UNCHANGED <<chunk_count, frames>>
    /\ rpc = "none"
    /\ UNCHANGED <<rvars, call>>
    /\ UNCHANGED <<compressor, threads, compression_chunk_size, remaining_chunks,
                   input_buffers, workers, error, result>>

\* a parallel compressor's compress up to the spawning of the workers
RoundStart ==
    /\ wpc = "loop"
    /\ compressor = "flate2"
    /\ LET n_threads == Min(threads, remaining_chunks)
           read == ReadVectoredLoop(input, [i \in 1..n_threads |-> Zeros(compression_chunk_size)],
                                    0, n_threads, compression_chunk_size)
       IN /\ input' = read.input
          /\ input_buffers' = read.buffers
          /\ workers' = [i \in 1..read.chunks_with_data |-> "running"]
          \* a round that reads nothing leaves chunk_count as it is: the loop
          \* of write_entry then repeats this round for ever
          /\ wpc' = IF read.chunks_with_data = 0 THEN "hung" ELSE "round"
    /\ error' = FALSE
    /\ result' = "pending"
    /\ rpc = "none"
    /\ UNCHANGED <<rvars, call>>
    /\ UNCHANGED <<compressor, threads, compression_chunk_size, sink, chunk_count,
                   remaining_chunks, faults, log, frames, base>>

\* a worker of the round: compresses its buffer, then write_chunk under the lock
Worker(i) ==
    /\ wpc = "round"
    /\ i \in DOMAIN workers
    /\ workers[i] = "running"
    /\ workers' = [workers EXCEPT ![i] = "done"]
    /\ LET chunk == ZlibEncode(input_buffers[i])
       IN \/ /\ sink' = sink \o WriteChunkBytes(chunk)
             /\ frames' = Append(frames, Frame(base + i - 1, Len(input_buffers[i])))
             /\ UNCHANGED <<error, faults>>
             \* chunk_count -= 1 at 0: a panic with overflow checks, a wrap without
             /\ \/ /\ chunk_count' = chunk_count - 1
                   /\ UNCHANGED wpc
                \/ /\ chunk_count = 0
                   /\ wpc' = "panic"
                   /\ UNCHANGED chunk_count
          \/ /\ faults > 0
             /\ faults' = faults - 1
             /\ \E written \in {<<>>, u32_to_u24_bytes(Len(chunk))} : sink' = sink \o written
             /\ error' = TRUE
             /\ UNCHANGED <<chunk_count, frames, wpc>>
    /\ log' = IF wpc' = "panic" THEN Returned("err") ELSE log
    /\ rpc = "none"
    /\ UNCHANGED <<rvars, call>>
    /\ UNCHANGED <<compressor, threads, compression_chunk_size, remaining_chunks, input,
                   input_buffers, result, base>>

\* the driver takes the error slot, at the end of the scope's closure
DriverCheck ==
    /\ wpc = "round"
    /\ result = "pending"
    /\ result' = IF error THEN "err" ELSE "ok"
    /\ error' = FALSE
    /\ rpc = "none"
    /\ UNCHANGED <<rvars, call>>
    /\ UNCHANGED <<compressor, threads, compression_chunk_size, sink, wpc, chunk_count,
                   remaining_chunks, input, input_buffers, workers, faults, log, frames, base>>

\* the scope ends when every worker is done: compress returns, write_entry
\* loops or returns
RoundJoin ==
    /\ wpc = "round"
    /\ result # "pending"
    /\ ScopeJoined(workers)
    /\ base' = base + Len(workers)
    /\ workers' = <<>>
    /\ UNCHANGED sink
    /\ wpc' = IF result = "err" THEN "failed" ELSE IF chunk_count # 0 THEN "loop" ELSE "idle"
    /\ log' = IF wpc' = "failed" THEN Returned("err")
              ELSE IF wpc' = "idle" THEN Returned("ok") ELSE log
    /\ rpc = "none"
    /\ UNCHANGED <<rvars, call>>
    /\ UNCHANGED <<compressor, threads, compression_chunk_size, chunk_count,
                   remaining_chunks, input, input_buffers, error, result, faults, frames>>

\* ------------------------------------------------ src/archive/read.rs
\* the buffer length of std::io::copy, which ArchiveEntry::drop reads with
CopyBuf == 8192

\* the loop of ArchiveEntry::read that pulls k framed chunks from the stream:
\* a 3-byte length and that many bytes, k times
RECURSIVE PullChunks(_, _, _)
PullChunks(s, pos, k) ==
    IF k = 0 THEN [st |-> "ok", pos |-> pos, blobs |-> <<>>]
    ELSE LET raw_chunk_size_bytes == ReadExact(s, pos, 3)
         IN IF raw_chunk_size_bytes.st # "ok"
            THEN [st |-> "eof", pos |-> raw_chunk_size_bytes.pos, blobs |-> <<>>]
            ELSE LET chunk_buffer == ReadExact(s, raw_chunk_size_bytes.pos,
                                               u24_bytes_to_u32(raw_chunk_size_bytes.bytes))
                 IN IF chunk_buffer.st # "ok"
                    THEN [st |-> "eof", pos |-> chunk_buffer.pos, blobs |-> <<>>]
                    ELSE LET rest == PullChunks(s, chunk_buffer.pos, k - 1)
                         IN [st |-> rest.st, pos |-> rest.pos,
                             blobs |-> <<chunk_buffer.bytes>> \o rest.blobs]

\* the streams the entries reader may turn out to hold: the bytes written, or
\* a prefix of them that ends at or after the bytes already consumed.  The end
\* of the stream is fixed by the first read that runs into it.
Streams == IF cut THEN {rd} ELSE {Take(rd, c) : c \in rpos..Len(rd)}

\* the create command is over and its writer dropped; the extract command
\* opens the archive it has left
OpenArchive ==
    /\ rpc = "none"
    /\ wpc \in {"idle", "failed"}
    /\ rpc' = "new"
    /\ rd' = sink
    /\ wpc' = "closed"
    /\ chunk_count' = 0
    /\ remaining_chunks' = 0
    /\ input' = <<>>
    /\ input_buffers' = <<>>
    /\ workers' = <<>>
    /\ error' = FALSE
    /\ result' = "pending"
    /\ base' = 0
    /\ UNCHANGED <<compressor, threads, compression_chunk_size, sink, faults, log, frames,
                   call>>
    /\ UNCHANGED <<rpos, archive_header, decompressor, decompress_inputs, entry_header,
                   entry_chunk_size, compression_chunk_buffer, read_bytes, chunks, read_chunks,
                   chunk_buffers, inputs, dworkers, derror, dresult, buf_len, dropping, out,
                   last, eidx, abandoned, cut>>

\* a header() that parses the stream on every call
HeaderAlwaysParsed(cache, s, pos) == ArchiveHeaderDeserialize(s, pos)

\* Archive::header: the cached header when there is one, without reading the
\* stream, or the header parsed from the stream
HeaderCached(cache, s, pos) ==
    IF cache # <<>> THEN [st |-> "ok", header |-> cache[1], pos |-> pos]
    ELSE ArchiveHeaderDeserialize(s, pos)

\* Archive::header: the cached header, or the header parsed from the stream
Header ==
    /\ rpc = "new"
    /\ LET parsed == ArchiveHeaderDeserialize(rd, rpos)
       IN IF archive_header # <<>> THEN UNCHANGED <<rpc, rpos, archive_header>>
          ELSE /\ rpos' = parsed.pos
               /\ archive_header' = IF parsed.st = "ok" THEN <<parsed.header>> ELSE <<>>
               /\ rpc' = IF parsed.st = "ok" THEN "new" ELSE "err"
    /\ UNCHANGED <<wvars, call>>
    /\ UNCHANGED <<rd, decompressor, decompress_inputs, entry_header, entry_chunk_size,
                   compression_chunk_buffer, read_bytes, chunks, read_chunks, chunk_buffers,
                   inputs, dworkers, derror, dresult, buf_len, dropping, out, last, eidx,
                   abandoned, cut>>

\* Archive::entries, with the decompressor the extract command picks by the
\* compression name of the header (n_threads: its --threads)
Entries(n_threads) ==
    /\ rpc = "new"
    /\ LET parsed == HeaderCached(archive_header, rd, rpos)
           name == parsed.header.compression
       IN /\ rpos' = parsed.pos
          /\ archive_header' = IF parsed.st = "ok" THEN <<parsed.header>> ELSE <<>>
          /\ rpc' = IF parsed.st = "ok" /\ name \in {NameNone, NameFlate2}
                    THEN "entries" ELSE "err"
          /\ decompressor' = IF name = NameFlate2 THEN "flate2" ELSE "none"
          /\ decompress_inputs' = IF name = NameFlate2 THEN n_threads ELSE 1
    /\ UNCHANGED <<wvars, call>>
    /\ UNCHANGED <<rd, entry_header, entry_chunk_size, compression_chunk_buffer, read_bytes,
                   chunks, read_chunks, chunk_buffers, inputs, dworkers, derror, dresult,
                   buf_len, dropping, out, last, eidx, abandoned, cut>>

\* a next_entry that ends the sequence on every failure of the header parse
NextEntryResultLenient(st) == "end"

\* a next_entry that reports every failure of the header parse as an error
NextEntryResultStrict(st) == "failed"

\* what next_entry returns when the header parse fails: None ("end") on
\* UnexpectedEof, Some(Err) ("failed") on every other error
NextEntryResult(st) == IF st = "eof" THEN "end" ELSE "failed"

\* ArchiveEntriesReader::next_entry: the first call, or a call after an entry
\* was dropped, or a call after next_entry returned None ("end") or
\* Some(Err) ("failed"); the entries reader keeps no trace of either
NextEntry ==
    /\ rpc \in {"entries", "end", "failed"}
    /\ \E s \in Streams :
         LET parsed == ArchiveEntryHeaderDeserialize(s, rpos)
             chunk_size == IF archive_header = <<>> THEN 0
                           ELSE archive_header[1].compression_chunk_size
         IN /\ s = rd \/ parsed.st = "eof"
            /\ rd' = s
            /\ cut' = (cut \/ s # rd)
            /\ rpos' = parsed.pos
            /\ IF parsed.st = "ok"
               THEN /\ entry_header' = parsed.header
                    /\ entry_chunk_size' = chunk_size
                    /\ eidx' = eidx + 1
                    \* a chunk size of 0 divides by zero
                    /\ rpc' = IF chunk_size = 0 THEN "panic" ELSE "entry"
                    /\ chunks' = IF chunk_size = 0 THEN 0
                                 ELSE EntryChunks(parsed.header.size, chunk_size)
               ELSE /\ rpc' = NextEntryResult(parsed.st)
                    /\ UNCHANGED <<entry_header, entry_chunk_size, eidx, chunks>>
    /\ compression_chunk_buffer' = <<>>
    /\ read_bytes' = 0
    /\ read_chunks' = 0
    /\ out' = <<>>
    /\ last' = [st |-> "none", n |-> 0]
    /\ abandoned' = 0
    /\ UNCHANGED <<wvars, call>>
    /\ UNCHANGED <<archive_header, decompressor, decompress_inputs, chunk_buffers, inputs,
                   dworkers, derror, dresult, buf_len, dropping>>

\* a read that goes on at read_bytes = size
EntryDoneStrict(size, n_read) == size = 0 \/ n_read > size

\* the first test of ArchiveEntry::read: nothing is left to return
EntryDone(size, n_read) == size = 0 \/ n_read >= size

\* a batch that ignores how many framed chunks the entry has left
BatchSizeAll(n_inputs, n_chunks, n_read_chunks) == n_inputs

\* the framed chunks the loop of ArchiveEntry::read pulls: one per
\* decompress input, until read_chunks reaches chunks
BatchSize(n_inputs, n_chunks, n_read_chunks) ==
    Min(n_inputs, IF n_chunks > n_read_chunks THEN n_chunks - n_read_chunks ELSE 0)

\* a read call returns st ("ok" with n bytes, or "err"): to the caller, or to
\* the copy loop of ArchiveEntry::drop, which unwraps the result
Returns(st, bytes) ==
    IF dropping
    THEN /\ rpc' = IF st = "err" THEN "panic" ELSE IF bytes = <<>> THEN "entries" ELSE "recurse"
         /\ dropping' = (rpc' = "recurse")
         /\ buf_len' = IF rpc' = "recurse" THEN CopyBuf ELSE 0
         /\ UNCHANGED <<out, last>>
    ELSE /\ rpc' = "entry"
         /\ last' = [st |-> st, n |-> Len(bytes)]
         /\ out' = out \o bytes
         /\ buf_len' = 0
         /\ UNCHANGED dropping

\* the body of ArchiveEntry::read for a buffer of n bytes, on the stream s
ReadBody(n, s) ==
    \* buf_len: n while the call runs, 0 once it has returned
    IF EntryDone(entry_header.size, read_bytes)
    THEN /\ s = rd
         /\ Returns("ok", <<>>)
         /\ UNCHANGED <<rd, rpos, compression_chunk_buffer, read_bytes, read_chunks,
                        chunk_buffers, inputs, dworkers, derror, dresult, cut>>
    ELSE IF compression_chunk_buffer # <<>>
    THEN LET to_read == Min(n, Len(compression_chunk_buffer))
         IN /\ s = rd
            /\ compression_chunk_buffer' = Drop(compression_chunk_buffer, to_read)
            /\ read_bytes' = read_bytes + to_read
            /\ Returns("ok", Take(compression_chunk_buffer, to_read))
            /\ UNCHANGED <<rd, rpos, read_chunks, chunk_buffers, inputs, dworkers, derror,
                           dresult, cut>>
    ELSE LET k == BatchSize(decompress_inputs, chunks, read_chunks)
             pull == PullChunks(s, rpos, k)
         IN /\ s = rd \/ pull.st = "eof"
            /\ cut' = (cut \/ s # rd)
            /\ rpos' = pull.pos
            /\ read_chunks' = read_chunks + Len(pull.blobs)
            /\ UNCHANGED read_bytes
            /\ IF pull.st # "ok"
               THEN /\ Returns("err", <<>>)
                    /\ rd' = s
                    /\ UNCHANGED <<compression_chunk_buffer, chunk_buffers, inputs, dworkers,
                                   derror, dresult>>
               ELSE IF k = 0
               \* nothing is pulled and nothing decompressed: the recursive call
               \* finds the state of this one, and the recursion never ends
               THEN /\ rpc' = "overflow"
                    /\ buf_len' = n
                    /\ rd' = s
                    /\ UNCHANGED <<compression_chunk_buffer, chunk_buffers, inputs, dworkers,
                                   derror, dresult, dropping, out, last>>
               ELSE IF decompressor = "none"
               \* NoDecompressor::decompress, then the recursive call
               THEN /\ compression_chunk_buffer' = Concat(pull.blobs)
                    /\ rpc' = "recurse"
                    /\ buf_len' = n
                    /\ rd' = s
                    /\ UNCHANGED <<chunk_buffers, inputs, dworkers, derror, dresult, dropping, out, last>>
               \* Flate2Decompressor::decompress up to the spawning of the workers
               ELSE /\ inputs' = pull.blobs
                    /\ rd' = s
                    /\ chunk_buffers' =
                         IF Len(chunk_buffers) < Len(pull.blobs)
                         THEN chunk_buffers \o [i \in 1..(Len(pull.blobs) - Len(chunk_buffers))
                                                  |-> Zeros(entry_chunk_size)]
                         ELSE chunk_buffers
                    /\ dworkers' = [i \in 1..Len(pull.blobs) |-> "running"]
                    /\ derror' = FALSE
                    /\ dresult' = "pending"
                    /\ rpc' = "batch"
                    /\ buf_len' = n
                    /\ UNCHANGED <<compression_chunk_buffer, dropping, out, last>>

\* the caller calls ArchiveEntry::read with a buffer of n bytes
Read(n) ==
    /\ rpc = "entry"
    /\ \E s \in Streams : ReadBody(n, s)
    /\ UNCHANGED <<wvars, call>>
    /\ UNCHANGED <<archive_header, decompressor, decompress_inputs, entry_header,
                   entry_chunk_size, chunks, eidx, abandoned>>

\* the recursive call self.read(buf), and the next call of drop's copy loop
Recurse ==
    /\ rpc = "recurse"
    /\ \E s \in Streams : ReadBody(buf_len, s)
    /\ UNCHANGED <<wvars, call>>
    /\ UNCHANGED <<archive_header, decompressor, decompress_inputs, entry_header,
                   entry_chunk_size, chunks, eidx, abandoned>>

\* a worker of the batch: read_to_end appends to its chunk buffer, which is
\* then truncated to the number of bytes read
DWorker(i) ==
    /\ rpc = "batch"
    /\ i \in DOMAIN dworkers
    /\ dworkers[i] = "running"
    /\ dworkers' = [dworkers EXCEPT ![i] = "done"]
    /\ LET decoded == ZlibDecode(inputs[i])
       IN IF decoded.st = "ok"
          THEN /\ chunk_buffers' = [chunk_buffers EXCEPT
                                      ![i] = Take(@ \o decoded.data, Len(decoded.data))]
               /\ UNCHANGED derror
          ELSE /\ chunk_buffers' = [chunk_buffers EXCEPT ![i] = @ \o decoded.data]
               /\ derror' = TRUE
    /\ UNCHANGED <<wvars, call>>
    /\ UNCHANGED <<rpc, rd, rpos, archive_header, decompressor, decompress_inputs,
                   entry_header, entry_chunk_size, compression_chunk_buffer, read_bytes,
                   chunks, read_chunks, inputs, dresult, buf_len, dropping, out, last, eidx,
                   abandoned, cut>>

\* the driver takes the batch's error slot, at the end of the scope's closure
DDriverCheck ==
    /\ rpc = "batch"
    /\ dresult = "pending"
    /\ dresult' = IF derror THEN "err" ELSE "ok"
    /\ derror' = FALSE
    /\ UNCHANGED <<wvars, call>>
    /\ UNCHANGED <<rpc, rd, rpos, archive_header, decompressor, decompress_inputs,
                   entry_header, entry_chunk_size, compression_chunk_buffer, read_bytes,
                   chunks, read_chunks, chunk_buffers, inputs, dworkers, buf_len, dropping,
                   out, last, eidx, abandoned, cut>>

\* a decompress that appends the chunk buffers of the batch last to first
BatchOutputReversed(bufs, n) == Concat([i \in 1..n |-> bufs[n + 1 - i]])

\* what decompress appends to the output after the scope: the chunk buffers
\* of the batch's n inputs, first to last
BatchOutput(bufs, n) == Concat(SubSeq(bufs, 1, n))

\* the scope ends when every worker is done: decompress appends the chunk
\* buffers of the batch and read calls itself, or decompress and read fail
DJoin ==
    /\ rpc = "batch"
    /\ dresult # "pending"
    /\ ScopeJoined(dworkers)
    /\ dworkers' = <<>>
    /\ inputs' = <<>>
    /\ IF dresult = "err"
       THEN /\ Returns("err", <<>>)
            /\ UNCHANGED compression_chunk_buffer
       ELSE /\ compression_chunk_buffer' =
                   compression_chunk_buffer \o BatchOutput(chunk_buffers, Len(inputs))
            /\ rpc' = "recurse"
            /\ UNCHANGED <<dropping, out, last, buf_len>>
    /\ UNCHANGED <<wvars, call>>
    /\ UNCHANGED <<rd, rpos, archive_header, decompressor, decompress_inputs, entry_header,
                   entry_chunk_size, read_bytes, chunks, read_chunks, chunk_buffers, derror,
                   dresult, eidx, abandoned, cut>>

\* ArchiveEntry::drop: an entry not read to its end is copied to a sink
DropEntry ==
    /\ rpc = "entry"
    /\ abandoned' = read_bytes
    /\ last' = [st |-> "none", n |-> 0]
    /\ IF read_bytes < entry_header.size
       THEN /\ rpc' = "recurse"
            /\ dropping' = TRUE
            /\ buf_len' = CopyBuf
       ELSE /\ rpc' = "entries"
            /\ UNCHANGED <<dropping, buf_len>>
    /\ UNCHANGED <<wvars, call>>
    /\ UNCHANGED <<rd, rpos, archive_header, decompressor, decompress_inputs, entry_header,
                   entry_chunk_size, compression_chunk_buffer, read_bytes, chunks, read_chunks,
                   chunk_buffers, inputs, dworkers, derror, dresult, out, eidx, cut>>

\* the writer and the reader over a sink that takes every byte
Next ==
    \/ \E size \in 0..MaxSize : \E entry \in EntryHeaders(size) : \E source \in Sources(size) :
           WriteEntry(entry, source)
    \/ NoCompress
    \/ RoundStart
    \/ \E i \in 1..MaxThreads : Worker(i)
    \/ DriverCheck
    \/ RoundJoin
    \/ OpenArchive
    \/ Header
    \/ \E n_threads \in 1..MaxThreads : Entries(n_threads)
    \/ NextEntry
    \/ \E n \in 1..MaxBuf : Read(n)
    \/ Recurse
    \/ \E i \in 1..MaxThreads : DWorker(i)
    \/ DDriverCheck
    \/ DJoin
    \/ DropEntry

Spec == Init /\ [][Next]_vars

\* the writer over a sink that may fail
NextF ==
    \/ \E size \in 0..MaxSize : \E entry \in EntryHeaders(size) : \E source \in Sources(size) :
           WriteEntry(entry, source)
    \/ \E size \in 0..MaxSize : \E entry \in EntryHeaders(size) : WriteEntryFault(entry)
    \/ NoCompress
    \/ RoundStart
    \/ \E i \in 1..MaxThreads : Worker(i)
    \/ DriverCheck
    \/ RoundJoin

SpecF == InitF /\ [][NextF]_vars

\* ------------------------------------------- streams with trailing bytes
\* the bytes a stream may hold after the last entry the writer wrote: none, a
\* lone type byte of a File, a byte that is no entry type, that byte and a
\* type byte
Tails == {<<>>, <<0>>, <<9>>, <<9, 0>>}

\* the extract command opens a stream that holds the archive the writer has
\* left and, after it, the bytes of tail
OpenStream(tail) ==
    /\ rpc = "none"
    /\ wpc \in {"idle", "failed"}
    /\ rpc' = "new"
    /\ rd' = sink \o tail
    /\ wpc' = "closed"
    /\ chunk_count' = 0
    /\ remaining_chunks' = 0
    /\ input' = <<>>
    /\ input_buffers' = <<>>
    /\ workers' = <<>>
    /\ error' = FALSE
    /\ result' = "pending"
    /\ base' = 0
    /\ UNCHANGED <<compressor, threads, compression_chunk_size, sink, faults, log, frames,
                   call>>
    /\ UNCHANGED <<rpos, archive_header, decompressor, decompress_inputs, entry_header,
                   entry_chunk_size, compression_chunk_buffer, read_bytes, chunks, read_chunks,
                   chunk_buffers, inputs, dworkers, derror, dresult, buf_len, dropping, out,
                   last, eidx, abandoned, cut>>

\* archives of the "none" codec
InitR == Init /\ compressor = "none"

\* a writer whose sources deliver exactly header.size bytes, then a reader
\* over the archive and the bytes that follow it
NextR ==
    \/ \E size \in 0..MaxSize : \E entry \in EntryHeaders(size) : WriteEntry(entry, Payload(size))
    \/ NoCompress
    \/ \E tail \in Tails : OpenStream(tail)
    \/ Header
    \/ \E n_threads \in 1..MaxThreads : Entries(n_threads)
    \/ NextEntry
    \/ \E n \in 1..MaxBuf : Read(n)
    \/ Recurse
    \/ DropEntry

SpecR == InitR /\ [][NextR]_vars

\* -------------------------------------------- archives with a damaged chunk
\* the extract command opens a stream that holds the archive the writer has
\* left, with the first payload byte of the k-th framed chunk zeroed (k = 0:
\* nothing zeroed)
OpenDamaged(k) ==
    /\ rpc = "none"
    /\ wpc \in {"idle", "failed"}
    /\ k \in 0..Len(frames)
    /\ rpc' = "new"
    /\ rd' = IF k = 0 THEN sink ELSE [sink EXCEPT ![frames[k].off + 4] = 0]
    /\ wpc' = "closed"
    /\ chunk_count' = 0
    /\ remaining_chunks' = 0
    /\ input' = <<>>
    /\ input_buffers' = <<>>
    /\ workers' = <<>>
    /\ error' = FALSE
    /\ result' = "pending"
    /\ base' = 0
    /\ UNCHANGED <<compressor, threads, compression_chunk_size, sink, faults, log, frames,
                   call>>
    /\ UNCHANGED <<rpos, archive_header, decompressor, decompress_inputs, entry_header,
                   entry_chunk_size, compression_chunk_buffer, read_bytes, chunks, read_chunks,
                   chunk_buffers, inputs, dworkers, derror, dresult, buf_len, dropping, out,
                   last, eidx, abandoned, cut>>

\* archives of the "flate2" codec, over a sink that may fail
InitD == InitF /\ compressor = "flate2"

\* a flate2 writer whose sources deliver exactly header.size bytes, then a
\* reader over the archive with at most one damaged chunk
NextD ==
    \/ \E size \in 0..MaxSize : \E entry \in EntryHeaders(size) : WriteEntry(entry, Payload(size))
    \/ RoundStart
    \/ \E i \in 1..MaxThreads : Worker(i)
    \/ DriverCheck
    \/ RoundJoin
    \/ \E k \in 0..(MaxEntries * MaxSize) : OpenDamaged(k)
    \/ Header
    \/ \E n_threads \in 1..MaxThreads : Entries(n_threads)
    \/ NextEntry
    \/ \E n \in 1..MaxBuf : Read(n)
    \/ Recurse
    \/ \E i \in 1..MaxThreads : DWorker(i)
    \/ DDriverCheck
    \/ DJoin
    \/ DropEntry

SpecD == InitD /\ [][NextD]_vars

\* -------------------------------------------- codec functions on their own
\* the chunk lengths write_chunk is called with: short chunks, and chunks
\* around the largest length three bytes can hold
ChunkLengths == (0..40) \cup ((2 ^ 24 - 3)..(2 ^ 24 + 3)) \cup {2 ^ 25 + 1}

\* ChunkWriter::write_chunk on a chunk of len bytes (len below 2^31, so that
\* `chunk.len() as u32` is len): the prefix written, and the number of
\* payload bytes written after it
WriteChunkLength(len) == [prefix |-> u32_to_u24_bytes(len), payload |-> len]

\* write_chunk is called with a chunk of len bytes
WriteChunk(len) ==
    /\ call = NoCall
    /\ call' = [fn |-> "write_chunk", arg |-> len, ret |-> WriteChunkLength(len)]
    /\ UNCHANGED <<wvars, rvars>>

\* the u32 (width 32) or u64 (width 64) values that are serialized: the small
\* values, the powers of two, their predecessors up to the largest value of
\* the type, and a value of alternating bits
Words(width) ==
    {Bits(v, width) : v \in 0..MaxValue}
        \cup {[i \in 1..width |-> IF i = j THEN 1 ELSE 0] : j \in 1..width}
        \cup {[i \in 1..width |-> IF i <= j THEN 1 ELSE 0] : j \in 1..width}
        \cup {[i \in 1..width |-> i % 2]}

\* a value is serialized and the bytes are deserialized
VariableSizedRoundTrip(value) ==
    /\ call = NoCall
    /\ LET bytes == VariableSizedSerialize(value)
       IN call' = [fn |-> "varint", arg |-> value,
                   ret |-> [bytes |-> bytes,
                            parsed |-> VariableSizedDeserialize(bytes, 0, Len(value))]]
    /\ UNCHANGED <<wvars, rvars>>

\* the byte strings that are deserialized as a varint: n continuation bytes
\* in a row, alone (the input ends inside the varint, or the continuation
\* bits run on) or before a final byte
RunOns ==
    LET runs == {[i \in 1..n |-> b] : n \in 0..MaxRun, b \in {128, 129, 255}}
    IN runs \cup {r \o <<last_byte>> : r \in runs, last_byte \in {0, 1, 127}}

\* a byte string is deserialized as a VariableSizedU32 (width 32) or a
\* VariableSizedU64 (width 64)
VariableSizedDecode(bytes, width) ==
    /\ call = NoCall
    /\ call' = [fn |-> "varint_decode", arg |-> [bytes |-> bytes, width |-> width],
                ret |-> VariableSizedDeserialize(bytes, 0, width)]
    /\ UNCHANGED <<wvars, rvars>>

\* the strings headers carry: empty, ASCII, two-byte UTF-8 sequences, and a
\* string of 75 four-byte sequences, whose length of 300 bytes needs two
\* bytes (as a u16 and as a varint)
Strings == {<<>>, <<97>>, NameNone, NameFlate2, <<195, 169, 47, 206, 187>>,
            [i \in 1..300 |-> <<240, 159, 152, 128>>[((i - 1) % 4) + 1]]}

\* the largest value of a u32 or u64 field that the integers of the model hold
LargestField == 2 ^ 30 + (2 ^ 30 - 1)

\* the archive headers that are serialized (fields below 2^31)
ArchiveHeaders ==
    [version : {0, 1, 2, LargestField},
     compression : Strings,
     compression_chunk_size : {0, 1, 1024, 2 ^ 24, LargestField}]

\* the entry headers that are serialized (fields below 2^31)
ArchiveEntryHeaders ==
    [type : {ArchiveEntryHeaderType[i] : i \in 1..4},
     path : Strings \ {NameNone, NameFlate2},
     mode : {0, 420, LargestField},
     uid : {0, 128, LargestField},
     gid : {0, 1000},
     mtime : {0, 300, LargestField},
     size : {0, 3, 16384}]

\* the bytes that follow a serialized header in the stream it is read from
Following == <<255, 255>>

\* an ArchiveHeader is serialized and deserialized from a stream that goes on
\* after it
ArchiveHeaderRoundTrip(h) ==
    /\ call = NoCall
    /\ LET bytes == ArchiveHeaderSerialize(h)
       IN call' = [fn |-> "archive_header", arg |-> h,
                   ret |-> [bytes |-> bytes,
                            parsed |-> ArchiveHeaderDeserialize(bytes \o Following, 0)]]
    /\ UNCHANGED <<wvars, rvars>>

\* an ArchiveEntryHeader is serialized and deserialized from a stream that
\* goes on after it
ArchiveEntryHeaderRoundTrip(e) ==
    /\ call = NoCall
    /\ LET bytes == ArchiveEntryHeaderSerialize(e)
       IN call' = [fn |-> "entry_header", arg |-> e,
                   ret |-> [bytes |-> bytes,
                            parsed |-> ArchiveEntryHeaderDeserialize(bytes \o Following, 0)]]
    /\ UNCHANGED <<wvars, rvars>>

\* one writer, on which nothing is called
InitC == Init /\ compressor = "none" /\ compression_chunk_size = 1

\* one codec function is applied to one argument
NextC ==
    \/ \E len \in ChunkLengths : WriteChunk(len)
    \/ \E width \in {32, 64} : \E value \in Words(width) : VariableSizedRoundTrip(value)
    \/ \E width \in {32, 64} : \E bytes \in RunOns : VariableSizedDecode(bytes, width)
    \/ \E h \in ArchiveHeaders : ArchiveHeaderRoundTrip(h)
    \/ \E e \in ArchiveEntryHeaders : ArchiveEntryHeaderRoundTrip(e)

SpecC == InitC /\ [][NextC]_vars

\* ------------------------------------------- streams not left by the writer
\* an entry without payload, and an entry with one byte of payload
EmptyDirectory ==
    [type |-> "Directory", path |-> <<100>>, mode |-> 493, uid |-> 0, gid |-> 0,
     mtime |-> 1, size |-> 0]

OneByteFile ==
    [type |-> "File", path |-> <<97>>, mode |-> 420, uid |-> 1000, gid |-> 0,
     mtime |-> 300, size |-> 1]

\* what a stream may hold after its archive header: nothing; well-formed
\* entries (the payload as the "none" codec frames it); an entry whose type
\* byte is none of 0..3; an entry whose path is not UTF-8; either of them
\* after a well-formed entry
Bodies ==
    LET good == ArchiveEntryHeaderSerialize(EmptyDirectory)
        file == ArchiveEntryHeaderSerialize(OneByteFile) \o WriteChunkBytes(<<7>>)
        bad_type(t) == <<t>> \o Tail(good)
        bad_path(bytes) == ArchiveEntryHeaderSerialize([EmptyDirectory EXCEPT !.path = bytes])
    IN {<<>>, good, good \o good, file, file \o good,
        bad_type(4), bad_type(255), good \o bad_type(9),
        bad_path(<<255>>), bad_path(<<100, 195>>), good \o bad_path(<<97, 128, 98>>)}

\* the archive headers a stream may start with: supported and unsupported
\* versions, the names of the four codecs and a name of none, chunk sizes
\* around the smallest allowed one and 0
StreamHeaders ==
    [version : {0, 1, 2},
     compression : {NameNone, NameFlate2, NameBrotli, NameLz4, <<120, 122>>},
     compression_chunk_size : {0, 1, 1023, 1024}]

\* the extract command opens a stream that some other program has written:
\* the archive header h, then body
OpenCrafted(h, body) ==
    /\ rpc = "none"
    /\ wpc = "idle"
    /\ log = <<>>
    /\ rpc' = "new"
    /\ rd' = ArchiveHeaderSerialize(h) \o body
    /\ wpc' = "closed"
    /\ UNCHANGED <<compressor, threads, compression_chunk_size, sink, chunk_count,
                   remaining_chunks, input, input_buffers, workers, error, result, faults,
                   log, frames, base, call>>
    /\ UNCHANGED <<rpos, archive_header, decompressor, decompress_inputs, entry_header,
                   entry_chunk_size, compression_chunk_buffer, read_bytes, chunks, read_chunks,
                   chunk_buffers, inputs, dworkers, derror, dresult, buf_len, dropping, out,
                   last, eidx, abandoned, cut>>

\* the reader over the streams of StreamHeaders and Bodies
NextH ==
    \/ \E h \in StreamHeaders : \E body \in Bodies : OpenCrafted(h, body)
    \/ Header
    \/ \E n_threads \in 1..MaxThreads : Entries(n_threads)
    \/ NextEntry
    \/ \E n \in 1..MaxBuf : Read(n)
    \/ Recurse
    \/ \E i \in 1..MaxThreads : DWorker(i)
    \/ DDriverCheck
    \/ DJoin
    \/ DropEntry

SpecH == InitC /\ [][NextH]_vars

\* ------------------------------------------------ sources that read short
\* Read::read of a source that has `delivered` bytes at hand: the call returns
\* them and no more, whatever is still to come
ShortRead(inp, delivered) == Take(inp, delivered)

\* one turn of write_entry's loop with NoCompressor::compress over a source
\* whose read returns fewer bytes than requested before the end of its data:
\* the one read call of the turn is the chunk
NoCompressShortRead(delivered) ==
    /\ wpc = "loop"
    /\ compressor = "none"
    /\ delivered >= 1
    /\ delivered < Min(Len(input), compression_chunk_size)
    /\ LET chunk == NoCompressorChunk(ShortRead(input, delivered), compression_chunk_size)
           bytes_copied == Len(chunk)
       IN /\ input' = Drop(input, bytes_copied)
          /\ base' = base + 1
          /\ sink' = sink \o WriteChunkBytes(chunk)
          /\ chunk_count' = chunk_count - 1
          /\ frames' = Append(frames, Frame(base, Len(chunk)))
          /\ wpc' = IF chunk_count' # 0 THEN "loop" ELSE "idle"
          /\ log' = IF chunk_count' # 0 THEN log ELSE Returned("ok")
    /\ rpc = "none"
    /\ UNCHANGED <<rvars, call>>
    /\ UNCHANGED <<compressor, threads, compression_chunk_size, remaining_chunks,
                   input_buffers, workers, error, result, faults>>

\* a writer without compression whose sources hold exactly header.size bytes
\* and hand them out in reads of any length
NextS ==
    \/ \E size \in 0..MaxSize : \E entry \in EntryHeaders(size) : WriteEntry(entry, Payload(size))
    \/ NoCompress
    \/ \E delivered \in 1..MaxChunkSize : NoCompressShortRead(delivered)

SpecS == InitR /\ [][NextS]_vars

\* ---------------------------------------------------------- properties
\* the entry of the log the reader is at
Current == log[eidx]

\* every source delivered exactly header.size bytes
AllExact == \A j \in DOMAIN log : Len(log[j].source) = log[j].header.size

\* the framed chunks of entry j, in the order they were written
FramesOf(j) == SelectSeq(frames, LAMBDA f : f.entry = j)

\* the last read call of the caller returned 0: the entry is consumed to its end
Consumed == rpc = "entry" /\ last.st = "ok" /\ last.n = 0

\* C1: with the "none" codec, an entry written from a source that delivers
\* exactly header.size bytes B and read back to its end returns exactly B:
\* no read fails or fails to return, the bytes returned are always a prefix
\* of B, and they are B when read returns 0.
C1_NoneRoundTrip ==
    (compressor = "none" /\ AllExact /\ ~cut /\ eidx >= 1)
        => /\ rpc \notin {"overflow", "panic", "err", "failed"}
           /\ last.st # "err"
           /\ out = Take(Current.source, Len(out))
           /\ Consumed => out = Current.source

\* C1 witness: an entry of several chunks read to its end with the "none" codec
C1_Witness ==
    /\ compressor = "none" /\ AllExact /\ ~cut /\ eidx >= 1
    /\ Consumed
    /\ out = Current.source
    /\ Len(out) > compression_chunk_size

\* C2: the framed chunks of an entry reach the sink in logical chunk order,
\* under every interleaving of the workers of a round and from round to round.
C2_FramedChunksInOrder ==
    \A a, b \in DOMAIN frames :
        (a < b /\ frames[a].entry = frames[b].entry) => frames[a].idx < frames[b].idx

\* C3: an entry written with a parallel block codec from a source that
\* delivers exactly header.size bytes B and read back to its end returns B.
C3_ParallelRoundTrip ==
    (compressor = "flate2" /\ AllExact /\ ~cut /\ eidx >= 1 /\ Consumed)
        => out = Current.source

\* C4: in a valid archive, once an entry is disposed of (read not at all,
\* partly or fully) the reader stands right after the entry's last framed
\* chunk, and the entry next_entry returns carries the header as written.
C4_DisposedEntryLeavesReaderAtNextEntry ==
    (AllExact /\ ~cut /\ eidx >= 1)
        => /\ rpc = "entries" => rpos = Current.end
           /\ rpc = "entry" => entry_header = Current.header
           /\ rpc \notin {"err", "failed", "panic", "overflow"}

\* C4 witness: the first of two entries is dropped after a part of its bytes
\* was read, and the reader stands at the header of the second
C4_Witness ==
    /\ AllExact /\ ~cut
    /\ rpc = "entries" /\ eidx = 1 /\ Len(log) = 2
    /\ abandoned > 0 /\ abandoned < Current.header.size
    /\ rpos = Current.end /\ rpos = log[2].start

\* the stream was cut strictly inside an entry: after its type byte and
\* before the end of its last framed chunk
CutInside ==
    cut /\ \E j \in DOMAIN log : log[j].start < Len(rd) /\ Len(rd) < log[j].end

\* C5: when a valid archive is cut strictly inside an entry, the reader
\* reports neither a clean end of the sequence nor a complete entry.
C5_TruncationDetected ==
    (AllExact /\ CutInside) => (rpc # "end" /\ ~Consumed)

\* C6: when compress returns after a round in which a worker failed, it
\* returns an error and write_entry fails.
C6_WorkerErrorSurfaced ==
    [][(wpc = "round" /\ wpc' \in {"loop", "idle", "failed"} /\ (error \/ result = "err"))
          => wpc' = "failed"]_vars

\* C7: an entry of size k*c + r, 0 < r < c, written from a source of exactly
\* size bytes, has k + 1 framed chunks, of logical lengths c for the first k
\* and r for the last.
C7_ChunkBoundaryLaw ==
    \A j \in DOMAIN log :
        LET size == log[j].header.size
            c == compression_chunk_size
            fs == FramesOf(j)
        IN (log[j].status = "ok" /\ Len(log[j].source) = size /\ size % c # 0)
               => /\ Len(fs) = size \div c + 1
                  /\ \A i \in 1..(size \div c) : fs[i].len = c
                  /\ fs[size \div c + 1].len = size % c

\* C8: write_entry writes at most ceil(size / chunk_size) framed chunks for
\* an entry, whatever the source holds; chunk_count is never decremented at 0.
C8_NoExtraChunks ==
    /\ chunk_count >= 0
    /\ wpc # "panic"
    /\ \A j \in DOMAIN log :
           Len(FramesOf(j)) <= WriteChunkCount(log[j].header.size, compression_chunk_size)

\* C9: write_entry returns for every entry, codec, worker count and source,
\* also for a source that holds fewer than size bytes.
C9_WriteEntryTerminates == wpc # "hung"

\* C10: reading an entry whose framed chunks decode to fewer than header.size
\* bytes terminates: no read call recurses without end.
C10_ShortEntryReadTerminates ==
    (eidx >= 1 /\ Len(Current.source) < Current.header.size) => rpc # "overflow"

\* the length prefix of the k-th framed chunk written, as the sink holds it
FramePrefix(k) == u24_bytes_to_u32(SubSeq(sink, frames[k].off + 1, frames[k].off + 3))

\* C11: no framed chunk in the sink has the length prefix 0, for any entry,
\* codec and source.
C11_NoZeroLengthFrame == \A k \in DOMAIN frames : FramePrefix(k) # 0

\* C12: an entry of size 0 has no framed chunk: write_entry writes its header
\* and returns without a call of the compressor, and on the read side no read
\* and no disposal of the entry moves the stream past the entry header; every
\* read returns 0.
C12_EmptyEntryHasNoChunks ==
    /\ [](\A j \in DOMAIN log :
              log[j].header.size = 0
                  => /\ FramesOf(j) = <<>>
                     /\ log[j].end = log[j].hend
                     /\ log[j].status # "writing"
                     /\ j = Len(log) => wpc \notin {"loop", "round", "hung", "panic"})
    /\ [][(rpc = "entry" /\ entry_header.size = 0)
             => /\ rpos' = rpos
                /\ read_chunks' = 0
                /\ out' = <<>>
                /\ rpc' \in {"entry", "entries"}
                /\ rpc' = "entry" => (last'.st = "ok" /\ last'.n = 0)]_vars

\* C12 witness: the first of two entries is a directory of size 0; a read of
\* it has returned 0 and the stream stands at the header of the second entry
C12_Witness ==
    /\ rpc = "entry" /\ eidx = 1 /\ Len(log) = 2
    /\ entry_header.size = 0 /\ entry_header.type = "Directory"
    /\ Consumed
    /\ FramesOf(1) = <<>>
    /\ rpos = log[1].hend /\ rpos = log[2].start

\* C13: once next_entry has returned an error, the next call of next_entry on
\* the same entries reader returns an error too: neither the end of the
\* sequence nor a further entry.
C13_ReaderErrorSticky == [][rpc = "failed" => rpc' = "failed"]_vars

\* C14: once write_entry has returned an error, every later write_entry on
\* the same ArchiveWriter returns an error and writes no byte to the sink.
C14_WriterPoisoned == [][wpc = "failed" => (wpc' = "failed" /\ sink' = sink)]_vars

\* C15: when the stream holds bytes after the last entry of the archive, the
\* next_entry call made right after that entry returns an error, never the
\* end of the sequence.
C15_TrailingBytesRejected ==
    [][(rpc = "entries" /\ rpos = Len(sink) /\ Len(rd') > rpos) => rpc' = "failed"]_vars

\* the offsets of the stream at which an entry may begin: the end of the
\* archive header and the end of the last framed chunk of each entry
EntryBoundaries ==
    {IF log = <<>> THEN Len(sink) ELSE log[1].start} \cup {log[j].end : j \in DOMAIN log}

\* C16: a next_entry call made at an entry boundary at which the stream ends
\* returns the end of the sequence: no error, no entry, no byte consumed.
C16_CleanEndAtBoundary ==
    [][(rpc \in {"entries", "end", "failed"} /\ rpos \in EntryBoundaries /\ Len(rd') = rpos)
          => (rpc' = "end" /\ rpos' = rpos /\ eidx' = eidx)]_vars

\* C16 witness: next_entry has returned the end of the sequence right after
\* the last framed chunk of the last entry of an uncut archive
C16_Witness ==
    /\ rpc = "end" /\ ~cut
    /\ eidx >= 1 /\ eidx = Len(log)
    /\ FramesOf(eidx) # <<>>
    /\ rpos = Current.end /\ rpos = Len(rd)

\* the logical chunks a source is read in: c bytes each, the last one shorter
RECURSIVE SplitChunks(_, _)
SplitChunks(bytes, c) ==
    IF bytes = <<>> THEN <<>> ELSE <<Take(bytes, c)>> \o SplitChunks(Drop(bytes, c), c)

\* Flate2Decompressor with one thread over the framed chunks of an entry, one
\* chunk per batch: the one chunk buffer is appended to and truncated chunk
\* after chunk, and each result goes to the staging buffer
RECURSIVE DecodeSequential(_, _)
DecodeSequential(blobs, buffer) ==
    IF blobs = <<>> THEN <<>>
    ELSE LET decoded == ZlibDecode(Head(blobs)).data
             chunk_buffer == Take(buffer \o decoded, Len(decoded))
         IN chunk_buffer \o DecodeSequential(Tail(blobs), chunk_buffer)

\* what the first entry of an archive decodes to when it is written from the
\* source bytes by Flate2Compressor with one thread and read by
\* Flate2Decompressor with one thread
SingleThreaded(bytes, c) ==
    LET logical == SplitChunks(bytes, c)
    IN DecodeSequential([i \in DOMAIN logical |-> ZlibEncode(logical[i])], Zeros(c))

\* C17: for a fixed input and chunk size the decoded bytes do not depend on
\* the worker counts: the first entry of a flate2 archive, read to its end,
\* yields what writing and reading it with one thread yields.
C17_ThreadCountEquivalence ==
    (compressor = "flate2" /\ AllExact /\ ~cut /\ eidx = 1 /\ Consumed)
        => out = SingleThreaded(Current.source, compression_chunk_size)

\* the archive header the writer was constructed with, as bytes
WrittenArchiveHeader ==
    ArchiveHeaderSerialize([version |-> 1,
                            compression |-> IF compressor = "none" THEN NameNone ELSE NameFlate2,
                            compression_chunk_size |-> compression_chunk_size])

\* the framed chunk f of the history, length prefix and bytes, ends in the
\* sink at the offset `till`
FrameEndsAt(f, till) ==
    /\ f.off + 3 <= Len(sink)
    /\ f.off + 3 + u24_bytes_to_u32(SubSeq(sink, f.off + 1, f.off + 3)) = till

\* C18: after write_entry calls that all returned Ok the sink is the archive
\* header, at offset 0, and then for each entry in call order its header
\* immediately followed by its framed chunks, one after the other up to the
\* next entry; no other byte lies in between.
C18_SinkLayout ==
    (wpc \in {"idle", "closed"} /\ \A j \in DOMAIN log : log[j].status = "ok")
        => /\ Take(sink, Len(WrittenArchiveHeader)) = WrittenArchiveHeader
           /\ Len(sink) = IF log = <<>> THEN Len(WrittenArchiveHeader) ELSE log[Len(log)].end
           /\ \A j \in DOMAIN log :
                  LET fs == FramesOf(j)
                  IN /\ log[j].start = IF j = 1 THEN Len(WrittenArchiveHeader) ELSE log[j - 1].end
                     /\ SubSeq(sink, log[j].start + 1, log[j].hend)
                            = ArchiveEntryHeaderSerialize(log[j].header)
                     /\ IF fs = <<>> THEN log[j].end = log[j].hend ELSE fs[1].off = log[j].hend
                     /\ \A i \in DOMAIN fs :
                            FrameEndsAt(fs[i], IF i < Len(fs) THEN fs[i + 1].off ELSE log[j].end)

\* the offset of the stream right after the first k framed chunks of the
\* entry the reader is at
AfterFrames(k) ==
    LET fs == FramesOf(eidx)
    IN IF k = 0 THEN Current.hend
       ELSE fs[k].off + 3 + u24_bytes_to_u32(SubSeq(sink, fs[k].off + 1, fs[k].off + 3))

\* C19: read_chunks never exceeds chunks = ceil(size / chunk_size); a batch
\* pulls at most min(decompress_inputs, chunks - read_chunks) framed chunks;
\* and in a valid archive the stream stands right after the read_chunks
\* framed chunks pulled so far, so that no further chunk was consumed.
C19_ReadChunksBounded ==
    /\ []((eidx >= 1 /\ rpc \in {"entry", "recurse", "batch"})
              => /\ read_chunks <= chunks
                 /\ chunks = WriteChunkCount(entry_header.size, entry_chunk_size))
    /\ []((eidx >= 1 /\ rpc \in {"entry", "recurse", "batch"} /\ AllExact /\ ~cut)
              => /\ read_chunks <= Len(FramesOf(eidx))
                 /\ rpos = AfterFrames(read_chunks))
    /\ [][(rpc \in {"entry", "recurse"})
             => (read_chunks' - read_chunks
                     <= Min(decompress_inputs, chunks - read_chunks))]_vars

\* C19 witness: an entry of three framed chunks, followed by another entry,
\* was pulled by a decompressor of two inputs in a batch of two and a batch
\* of one
C19_Witness ==
    /\ rpc = "entry" /\ AllExact /\ ~cut
    /\ eidx = 1 /\ Len(log) = 2
    /\ decompress_inputs = 2 /\ chunks = 3 /\ read_chunks = 3
    /\ rpos = Current.end

\* C20: once the read calls of an entry have returned header.size bytes in
\* total, every later read returns 0 at once and leaves the stream where it
\* is; so does the disposal of the entry.
C20_ReadsAfterSizeReturnZero ==
    [][(rpc = "entry" /\ Len(out) >= entry_header.size)
          => /\ rpos' = rpos
             /\ rpc' \in {"entry", "entries"}
             /\ rpc' = "entry" => (last'.st = "ok" /\ last'.n = 0 /\ out' = out)]_vars

\* C20 witness: all the bytes of the first of two entries were returned, and
\* a further read has returned 0 with the stream at the second entry
C20_Witness ==
    /\ rpc = "entry" /\ eidx = 1 /\ Len(log) = 2 /\ ~cut
    /\ entry_header.size > 0 /\ Len(out) = entry_header.size
    /\ Consumed
    /\ rpos = log[2].start

\* C21: a parallel decompressor leaves the output untouched while the batch
\* runs, and when it appends, every worker of the batch has finished and what
\* is appended is the chunk buffers of the batch's inputs in input order,
\* the i-th as long as what the i-th input decodes to.
C21_DecompressedInInputOrder ==
    [][(rpc = "batch")
          => /\ (\E i \in DOMAIN dworkers : dworkers[i] = "running")
                    => compression_chunk_buffer' = compression_chunk_buffer
             /\ (compression_chunk_buffer' # compression_chunk_buffer)
                    => /\ compression_chunk_buffer'
                              = compression_chunk_buffer
                                    \o Concat([i \in DOMAIN inputs |-> chunk_buffers[i]])
                       /\ \A i \in DOMAIN inputs :
                              Len(chunk_buffers[i]) = Len(ZlibDecode(inputs[i]).data)]_vars

\* C21 witness: a batch of two inputs has ended and its two chunk buffers,
\* which differ, stand in the staging buffer first to last
C21_Witness ==
    /\ rpc = "recurse" /\ decompressor = "flate2" /\ decompress_inputs = 2
    /\ Len(chunk_buffers) = 2
    /\ chunk_buffers[1] # <<>> /\ chunk_buffers[2] # <<>>
    /\ chunk_buffers[1] \o chunk_buffers[2] # chunk_buffers[2] \o chunk_buffers[1]
    /\ compression_chunk_buffer = chunk_buffers[1] \o chunk_buffers[2]

\* C22: the step by which compress leaves its round, or decompress its batch,
\* with success or with an error, is taken when no worker spawned for that
\* round or batch is still running.
C22_NoReturnWhileWorkerRuns ==
    [][/\ (wpc = "round" /\ wpc' \in {"loop", "idle", "failed"})
              => (\A i \in DOMAIN workers : workers[i] # "running")
       /\ (rpc = "batch" /\ rpc' # "batch")
              => (\A i \in DOMAIN dworkers : dworkers[i] # "running")]_vars

\* C22 witness: a compress over two workers has returned an error after one of
\* them had written its chunk, and later a decompress of a batch of two has
\* returned an error to read
C22_Witness ==
    /\ threads = 2 /\ log # <<>> /\ log[Len(log)].status = "err" /\ frames # <<>>
    /\ rpc = "entry" /\ last.st = "err" /\ dresult = "err" /\ decompress_inputs = 2
    /\ read_chunks = 2

\* C23: for every chunk passed to write_chunk, the length the 3-byte prefix
\* holds is the number of payload bytes written after it (a chunk longer than
\* 2^24 - 1 bytes being capped or rejected).
C23_PrefixEqualsPayload ==
    call.fn = "write_chunk" => u24_bytes_to_u32(call.ret.prefix) = call.ret.payload

\* the number of bits of a value: the place of its highest 1 bit, 0 for 0
BitLength(value) ==
    IF value = WordZero(Len(value)) THEN 0
    ELSE CHOOSE i \in 1..Len(value) :
             value[i] = 1 /\ \A j \in (i + 1)..Len(value) : value[j] = 0

\* C24: for every u32 and every u64 value v, deserializing the bytes that
\* serializing v produces returns v and consumes all of them, and the
\* encoding has minimum length: one byte for 0, otherwise
\* ceil(bitlength(v) / 7) bytes, the last of them not zero.
C24_VarintRoundTripMinimal ==
    call.fn = "varint"
        => LET v == call.arg
               bytes == call.ret.bytes
               parsed == call.ret.parsed
           IN /\ parsed.st = "ok" /\ parsed.value = v /\ parsed.pos = Len(bytes)
              /\ Len(bytes) = IF BitLength(v) = 0 THEN 1 ELSE (BitLength(v) + 6) \div 7
              /\ BitLength(v) > 0 => bytes[Len(bytes)] # 0
              /\ \A i \in 1..(Len(bytes) - 1) : bytes[i] >= 128

\* C24 witness: the largest u64, 2^64 - 1, has been serialized to ten bytes
\* and read back
C24_Witness ==
    /\ call.fn = "varint"
    /\ call.arg = [i \in 1..64 |-> 1]
    /\ Len(call.ret.bytes) = 10
    /\ call.ret.parsed.value = call.arg

\* the continuation bytes a byte string starts with
LeadingContinuations(bytes) ==
    CHOOSE n \in 0..Len(bytes) :
        /\ \A i \in 1..n : bytes[i] >= 128
        /\ n < Len(bytes) => bytes[n + 1] < 128

\* C25: decoding a varint returns an error when the continuation bits run
\* on until the shift reaches the width (after 5 continuation bytes for 32
\* bits, after 10 for 64 bits), and when the input ends inside the varint.
C25_VarintRejected ==
    call.fn = "varint_decode"
        => LET bytes == call.arg.bytes
               n == LeadingContinuations(bytes)
               limit == (call.arg.width + 6) \div 7
           IN /\ n >= limit => (call.ret.st = "invalid" /\ call.ret.pos = limit)
              /\ (n >= 1 /\ n < limit /\ n = Len(bytes)) => call.ret.st = "eof"

\* C25 witness: six bytes that all have the high bit set have been refused
\* as a VariableSizedU32
C25_Witness ==
    /\ call.fn = "varint_decode"
    /\ call.arg = [bytes |-> <<255, 255, 255, 255, 255, 255>>, width |-> 32]
    /\ call.ret.st = "invalid"

\* C26: for every ArchiveHeader and every ArchiveEntryHeader, serialize
\* followed by deserialize returns a structure equal to the original field
\* by field, and consumes exactly the bytes that were serialized.
C26_HeaderRoundTrip ==
    call.fn \in {"archive_header", "entry_header"}
        => /\ call.ret.parsed.st = "ok"
           /\ \A f \in DOMAIN call.arg : call.ret.parsed.header[f] = call.arg[f]
           /\ DOMAIN call.ret.parsed.header = DOMAIN call.arg
           /\ call.ret.parsed.pos = Len(call.ret.bytes)

\* C26 witness: an entry header whose path length and mtime take several
\* varint bytes has been serialized and read back
C26_Witness ==
    /\ call.fn = "entry_header"
    /\ call.arg.type = "SymlinkDirectory" /\ Len(call.arg.path) = 300
    /\ call.arg.mtime = LargestField /\ call.arg.uid = 128
    /\ call.ret.parsed.header = call.arg
    /\ Len(call.ret.bytes) > 300

\* C27: the archive header the reader holds, and so every archive it yields
\* entries from, has version 1.
C27_UnsupportedVersionRejected ==
    archive_header # <<>> => archive_header[1].version = 1

\* C28: the reader never iterates entries with a compression_chunk_size
\* below 1024 (an archive header that carries one is rejected), and never
\* divides by a chunk size of zero.
C28_SmallChunkSizeRejected ==
    /\ rpc \in {"entries", "entry", "recurse", "batch", "end", "failed", "overflow", "panic"}
           => archive_header[1].compression_chunk_size >= 1024
    /\ rpc # "panic"

\* the stream holds, at offset pos, a type byte that is none of 0, 1, 2, 3
BadTypeAt(s, pos) == pos < Len(s) /\ s[pos + 1] > 3

\* the stream holds, at offset pos, a type byte, a path length and a path of
\* that length that is not valid UTF-8
BadPathAt(s, pos) ==
    /\ pos < Len(s) /\ s[pos + 1] <= 3
    /\ LET path_length == VarintDeserialize(s, pos + 1, 64)
       IN /\ path_length.st = "ok"
          /\ path_length.pos + path_length.value <= Len(s)
          /\ ~IsUtf8(SubSeq(s, path_length.pos + 1, path_length.pos + path_length.value))

\* C29: a call of next_entry on a stream that holds, where the entry header
\* is to start, a type byte other than 0..3 or a path that is not valid
\* UTF-8 returns an error: it neither ends the sequence nor yields an entry.
C29_MalformedEntryHeaderIsError ==
    [][(/\ rpc \in {"entries", "end", "failed"}
        /\ rd' = rd
        /\ BadTypeAt(rd, rpos) \/ BadPathAt(rd, rpos))
           => (rpc' = "failed" /\ eidx' = eidx)]_vars

\* C29 witness: after a well-formed entry, next_entry has failed on a path
\* that is not UTF-8, with the rest of the header still in the stream
C29_Witness ==
    /\ rpc = "failed" /\ eidx = 1
    /\ rpos < Len(rd)
    /\ rd[rpos] = 98 /\ rd[rpos - 1] = 128

\* the names extract has a decompressor for, by the claim
RecognizedNames == {NameNone, NameFlate2, NameBrotli, NameLz4}

\* C30: once the extract command has read the archive header and picked its
\* decompressor, it has stopped with exit code 1, before reading any entry,
\* exactly when the header names a codec other than none, flate2, brotli, lz4.
C30_ExtractSelectsDecompressor ==
    (archive_header # <<>> /\ rpc \notin {"none", "new"})
        => ((rpc = "err" /\ eidx = 0)
                <=> archive_header[1].compression \notin RecognizedNames)

\* C31: the archive header is parsed from the stream once and before any
\* entry header: while the reader iterates entries the header is present,
\* a header once cached is never replaced, and header() and entries() called
\* with a cached header consume no byte of the stream.
C31_HeaderParsedOnce ==
    /\ [](rpc \in {"entries", "entry", "recurse", "batch", "end", "failed", "overflow", "panic"}
              => archive_header # <<>>)
    /\ [](archive_header = <<>> => eidx = 0)
    /\ [][(archive_header # <<>>)
              => (/\ archive_header' = archive_header
                  /\ rpc = "new" => rpos' = rpos)]_vars

\* C31 witness: header() has cached the header and consumed exactly its
\* bytes, entries() has not been called yet, and entries follow in the stream
C31_Witness ==
    /\ rpc = "new" /\ archive_header # <<>>
    /\ rpos = Len(ArchiveHeaderSerialize(archive_header[1]))
    /\ Len(rd) > rpos

\* C32: a read call made while an abandoned entry is disposed of never ends
\* in an abort of the process: a failure of the discarding is an error value.
C32_DropFailureIsError == [][dropping => rpc' # "panic"]_vars

\* C33: whenever write_entry is about to invoke compress, the remaining_chunks
\* argument it passes is the number of framed chunks still to be written for
\* the entry, chunk_writer.chunk_count.
C33_RemainingChunksPassed == wpc = "loop" => remaining_chunks = chunk_count

\* a is a prefix of b
IsPrefix(a, b) == Len(a) <= Len(b) /\ SubSeq(b, 1, Len(a)) = a

\* C34: over the read calls of the caller on an entry, the bytes returned so
\* far followed by the staging buffer are the decoded chunks in order: a
\* step only appends to that sequence and moves bytes from the front of the
\* staging buffer to the caller, at most min(len(buf), len(staging)) per
\* call; and when read returns 0 no decoded byte is left unreturned.
C34_ReadIsConcatenationOfChunks ==
    /\ [][(/\ rpc \in {"entry", "recurse", "batch"} /\ ~dropping
           /\ rpc' \in {"entry", "recurse", "batch"} /\ ~dropping')
              => (/\ IsPrefix(out \o compression_chunk_buffer,
                              out' \o compression_chunk_buffer')
                  /\ IsPrefix(out, out')
                  /\ Len(out') - Len(out)
                         <= Min(IF rpc = "entry" THEN MaxBuf ELSE buf_len,
                                Len(compression_chunk_buffer)))]_vars
    /\ [](Consumed => compression_chunk_buffer = <<>>)

\* C35: every framed chunk a worker delivers reaches the sink as one
\* contiguous piece, its 3-byte length and right after it that many payload
\* bytes, and chunk_count (a u64) goes down by exactly one with it.
C35_FramesContiguousAndCounted ==
    [][(frames' # frames)
          => (LET written == Drop(sink', Len(sink))
              IN /\ Take(sink', Len(sink)) = sink
                 /\ Len(written) >= 3
                 /\ u24_bytes_to_u32(Take(written, 3)) = Len(written) - 3
                 /\ frames'[Len(frames')].off = Len(sink)
                 /\ chunk_count >= 1
                 /\ chunk_count' = chunk_count - 1)]_vars

\* C36: what a parallel decompressor appends to the output for a batch is
\* the concatenation of the decompressed bytes of the batch's inputs, in
\* order, whatever the chunk buffers held before the call.
C36_BatchOutputFromInputsOnly ==
    [][(rpc = "batch" /\ compression_chunk_buffer' # compression_chunk_buffer)
          => (compression_chunk_buffer'
                  = compression_chunk_buffer
                        \o Concat([i \in DOMAIN inputs |-> ZlibDecode(inputs[i]).data]))]_vars

\* C37: the archive does not depend on how the source splits its data across
\* read calls: the bytes an entry written without error leaves after its header
\* are the framed chunks of a source that fills every request, chunk size bytes
\* each and the rest in the last one, holding header.size bytes in all
C37_ArchiveIndependentOfReadSplit ==
    \A j \in DOMAIN log :
        log[j].status = "ok" =>
            LET parts == SplitChunks(log[j].source, compression_chunk_size)
            IN SubSeq(sink, log[j].hend + 1, log[j].end) =
                   Concat([k \in DOMAIN parts |-> WriteChunkBytes(parts[k])])

\* C38: for any archive, well-formed or not, the bytes the read calls on an
\* entry have returned so far never number more than header.size.
C38_ReadNeverExceedsSize == eidx >= 1 => Len(out) <= entry_header.size

\* bit k (0 the lowest) of the 7-bit group that the i-th byte of a varint holds
GroupBit(bytes, i, k) == ((bytes[i] % 128) \div 2 ^ k) % 2

\* C39: every byte sequence that Varint32 (Varint64) deserialization accepts
\* decodes to the exact integer its 7-bit groups denote: each 1 bit of a group
\* lies below bit 32 (bit 64) and is a 1 bit of the value, and the value has
\* no other 1 bit.
C39_NoPayloadBitDiscarded ==
    (call.fn = "varint_decode" /\ call.ret.st = "ok")
        => LET bytes == call.arg.bytes
               width == call.arg.width
               value == call.ret.value
           IN /\ \A i \in 1..call.ret.pos : \A k \in 0..6 :
                     GroupBit(bytes, i, k) = 1
                         => (7 * (i - 1) + k < width /\ value[7 * (i - 1) + k + 1] = 1)
              /\ \A b \in 1..width :
                     value[b] = 1
                         => ((b - 1) \div 7 < call.ret.pos
                                /\ GroupBit(bytes, ((b - 1) \div 7) + 1, (b - 1) % 7) = 1)

====
